---- MODULE Spec2Model ----
(***************************************************************************)
(* Model of the agent-verse core:                                          *)
(*   - the UCL API agent (tool registry getTimetable / getFreeRooms, the   *)
(*     credential resolver getUCLToken / getUserId and the step-bounded    *)
(*     agent loop), specification Spec;                                    *)
(*   - the Moodle sync path (inbound POST /api/sync-moodle handler and     *)
(*     sync_moodle), specification SyncSpec.                               *)
(***************************************************************************)
EXTENDS Integers, Sequences, FiniteSets, TLC

(***************************************************************************)
(* Bounds                                                                  *)
(***************************************************************************)
\* tool calls the planner may emit in one turn
MaxToolCalls == 1
\* tool calls per turn when the planner asks for several at once (ConcSpec)
MaxConcurrent == 2
\* tool invocations and credential requests counted over a run
MaxCounted == 2
\* largest clock value
MaxTime == 1
\* inbound sync requests handled in one run
MaxRequests == 2

(***************************************************************************)
(* JSON values and HTTP responses                                          *)
(***************************************************************************)
\* a string is a sequence of fragments; <<>> is the empty string and also
\* stands for an absent property (both are falsy in the code's tests)
Undefined == <<>>

\* a JSON object with the properties the code looks at
Obj(error, token, status, data) ==
    [kind |-> "object", error |-> error, token |-> token, status |-> status, data |-> data]

\* JSON null
JsonNull == [kind |-> "null", error |-> Undefined, token |-> Undefined,
             status |-> Undefined, data |-> Undefined]

\* a body on which response.json() rejects
Unparseable == [kind |-> "unparseable", error |-> Undefined, token |-> Undefined,
                status |-> Undefined, data |-> Undefined]

\* outcome of a fetch: the promise rejects (fail) or resolves to a response
NetworkFailure == [fail |-> TRUE, ok |-> FALSE, statusText |-> Undefined, body |-> Unparseable]

HttpOk(body) == [fail |-> FALSE, ok |-> TRUE, statusText |-> <<"OK">>, body |-> body]

HttpNotOk(statusText, body) ==
    [fail |-> FALSE, ok |-> FALSE, statusText |-> statusText, body |-> body]

\* no reply yet
NoReply == [fail |-> FALSE, ok |-> FALSE, statusText |-> <<"pending">>, body |-> JsonNull]

\* result of evaluating a piece of code: a returned value or a thrown Error
Return(v) == [how |-> "return", value |-> v, message |-> Undefined]

Throw(msg) == [how |-> "throw", value |-> JsonNull, message |-> msg]

NoResult == [how |-> "none", value |-> JsonNull, message |-> Undefined]

\* messages of the exceptions raised by the runtime
FetchFailedMsg == <<"fetch failed">>

JsonSyntaxMsg == <<"Unexpected token in JSON">>

NullPropertyMsg == <<"Cannot read properties of null">>

\* response.json(): the parsed body, or a SyntaxError
ResponseJson(resp) ==
    IF resp.body.kind = "unparseable" THEN Throw(JsonSyntaxMsg) ELSE Return(resp.body)

(***************************************************************************)
(* Tool inputs and their schemas                                           *)
(***************************************************************************)
ArgUndefined == [type |-> "undefined", text |-> ""]

ArgNumber == [type |-> "number", text |-> "42"]

ArgString(s) == [type |-> "string", text |-> s]

IsoDates == {"2025-11-10"}

IsoDateTimes == {"2025-11-07T00:00:00Z"}

\* is the value an ISO-8601 date-time string
IsISO8601(v) == v.type = "string" /\ v.text \in IsoDateTimes

DateArgs == {ArgUndefined, ArgNumber} \cup {ArgString(s) : s \in IsoDates}

DateTimeArgs == {ArgUndefined, ArgNumber, ArgString("tomorrow")}
                    \cup {ArgString(s) : s \in IsoDateTimes}

\* z.string()
ZString(v) == v.type = "string"

\* z.string().optional()
ZStringOptional(v) == v.type = "undefined" \/ ZString(v)

ToolNames == {"getTimetable", "getFreeRooms"}

\* what the planner can request in the registry
ToolRequests ==
    [tool : {"getTimetable"}, date : DateArgs,
     start_datetime : {ArgUndefined}, end_datetime : {ArgUndefined}]
    \cup
    [tool : {"getFreeRooms"}, date : {ArgUndefined},
     start_datetime : DateTimeArgs, end_datetime : DateTimeArgs]

\* inputSchema.parse of the requested tool
\* as written the free-rooms schema only demands strings
InputSchemaAccepts(req) ==
    IF req.tool = "getTimetable"
    THEN ZStringOptional(req.date)
    ELSE ZString(req.start_datetime) /\ ZString(req.end_datetime)

(***************************************************************************)
(* Credential resolver                                                     *)
(***************************************************************************)
NoUserId == "none"

UserIdNotFoundMsg == <<"User ID not found. Please login first.">>

TokenFailedMsg == <<"Failed to retrieve UCL API token">>

NoTokenMsg == <<"No UCL API token found. Please login first.">>

\* variant of getUserId that hands on whatever localStorage holds
getUserIdUnchecked(stored) ==
    Return(stored)

\* getUserId(): the stored id, or an Error when localStorage has none
getUserId(stored) ==
    IF stored = NoUserId THEN Throw(UserIdNotFoundMsg) ELSE Return(stored)

\* the try block of getUCLToken once the fetch of /api/user-token has settled
getUCLTokenTry(resp) ==
    IF resp.fail THEN Throw(FetchFailedMsg)
    ELSE IF ~resp.ok THEN Throw(TokenFailedMsg)
    ELSE IF ResponseJson(resp).how = "throw" THEN ResponseJson(resp)
    ELSE IF resp.body.kind = "null" THEN Throw(NullPropertyMsg)
    ELSE IF resp.body.token = Undefined THEN Throw(NoTokenMsg)
    ELSE Return(resp.body.token)

\* variant of the catch block that rethrows the caught error unwrapped
getUCLTokenCatchUnwrapped(r) ==
    r

\* the catch block of getUCLToken: rethrow with the retrieval prefix
getUCLTokenCatch(r) ==
    IF r.how = "throw" THEN Throw(TokenFailedMsg \o <<": ">> \o r.message) ELSE r

getUCLToken(resp) == getUCLTokenCatch(getUCLTokenTry(resp))

\* replies the token endpoint can give
TokenResponses ==
    { NetworkFailure,
      HttpNotOk(<<"Unauthorized">>, Obj(<<"no session">>, Undefined, Undefined, Undefined)),
      HttpOk(Unparseable),
      HttpOk(JsonNull),
      HttpOk(Obj(Undefined, Undefined, Undefined, Undefined)),
      HttpOk(Obj(Undefined, <<"tok">>, Undefined, Undefined)) }

(***************************************************************************)
(* Tool executors                                                          *)
(***************************************************************************)
Endpoint(tool) == IF tool = "getTimetable" THEN "/api/timetable" ELSE "/api/free-rooms"

Prefix(tool) ==
    IF tool = "getTimetable" THEN <<"Failed to get timetable: ">>
    ELSE <<"Failed to get free rooms: ">>

\* the object { error: msg } the executors return on failure
ErrorObject(msg) == Obj(msg, Undefined, Undefined, Undefined)

\* variant that reports the status text only
StatusTextOnly(resp) ==
    resp.statusText

\* error.error || response.statusText
ErrorOrStatusText(resp) ==
    IF resp.body.error # Undefined THEN resp.body.error ELSE resp.statusText

\* the try block of execute once the fetch of the campus endpoint has settled
executeTry(tool, resp) ==
    IF resp.fail THEN Throw(FetchFailedMsg)
    ELSE IF ResponseJson(resp).how = "throw" THEN ResponseJson(resp)
    ELSE IF ~resp.ok
         THEN IF resp.body.kind = "null" THEN Throw(NullPropertyMsg)
              ELSE Return(ErrorObject(Prefix(tool) \o ErrorOrStatusText(resp)))
    ELSE Return(resp.body)

\* variant of the catch block that lets the error escape
executeCatchRethrow(tool, r) ==
    r

\* the catch block of execute: every thrown error becomes { error: ... }
executeCatch(tool, r) ==
    IF r.how = "throw" THEN Return(ErrorObject(Prefix(tool) \o r.message)) ELSE r

\* variant that goes on to the campus endpoint whatever the resolver did
tokenObtainedAlways(r) ==
    TRUE

\* await getUCLToken(userId) lets execute go on only with a returned token
tokenObtained(r) ==
    r.how = "return"

\* replies a campus endpoint can give
ApiResponses ==
    { NetworkFailure,
      HttpNotOk(<<"Bad Request">>, Obj(<<"invalid token">>, Undefined, Undefined, Undefined)),
      HttpNotOk(<<"Bad Gateway">>, Obj(Undefined, Undefined, Undefined, Undefined)),
      HttpNotOk(<<"Bad Gateway">>, Unparseable),
      HttpNotOk(<<"Bad Gateway">>, JsonNull),
      HttpOk(Unparseable),
      HttpOk(JsonNull),
      HttpOk(Obj(Undefined, Undefined, Undefined, <<"events">>)),
      HttpOk(Obj(<<"quota">>, Undefined, Undefined, <<"events">>)) }

(***************************************************************************)
(* Agent loop                                                              *)
(***************************************************************************)
\* stopWhen: stepCountIs(20)
maxSteps == 20

\* variant of the stop condition that is off by one
stepCountIsOffByOne(n) ==
    n = maxSteps + 1

\* stepCountIs(maxSteps) applied to the number of finished steps
stepCountIs(n) ==
    n = maxSteps

Slots == 1..MaxConcurrent

\* requests the planner emits when it asks for several tools at once
ConcurrentRequests ==
    { r \in ToolRequests :
        \/ r.tool = "getTimetable" /\ r.date = ArgUndefined
        \/ r.tool = "getFreeRooms" /\ IsISO8601(r.start_datetime)
              /\ IsISO8601(r.end_datetime) }

\* number of requests sent to endpoint e by a tool call
Sent(c, e) == Cardinality({i \in 1..Len(c.net) : c.net[i] = e})

\* variant of the join that goes on as soon as one tool call has settled
anySettled(cs) ==
    \E s \in DOMAIN cs : cs[s].pc = "done"

\* the loop awaits all tool calls of the turn before it goes on
allSettled(cs) ==
    \A s \in DOMAIN cs : cs[s].pc \in {"idle", "done"}

\* variant of the loop condition without the stop condition
continueLoopWithoutStop(nToolCalls, n) ==
    nToolCalls > 0

\* the loop goes on to another turn while the turn had tool calls and the
\* stop condition does not hold
continueLoop(nToolCalls, n) ==
    nToolCalls > 0 /\ ~stepCountIs(n)

\* variant of the resolver that tries the token endpoint a second time
retryTokenOnce(r, attempts) ==
    r.how = "throw" /\ attempts < 2

\* getUCLToken makes one attempt: a failed resolution is not retried
retryToken(r, attempts) ==
    FALSE

\* a counter of the run, followed up to MaxCounted
CountUp(n) == IF n < MaxCounted THEN n + 1 ELSE n

IdleRequest == [tool |-> "none", date |-> ArgUndefined,
                start_datetime |-> ArgUndefined, end_datetime |-> ArgUndefined]

\* a tool call of the current turn
\*   pc     : idle, requested, awaitToken, awaitApi, done
\*   net    : endpoints this invocation has sent a request to, in order
\*   token  : has getUCLToken returned a token
\*   tokenResp, apiResp : how the two fetches settled
\*   out    : what the invocation gave back to the loop
IdleCall == [pc |-> "idle", req |-> IdleRequest, net |-> <<>>, token |-> FALSE,
             tokenResp |-> NoReply, apiResp |-> NoReply, out |-> NoResult]

VARIABLES
    loopState,      \* "Running" or "Terminated"
    phase,          \* "plan": the planner decides next; "tools": tool calls run
    stepCount,      \* planner turns taken
    calls,          \* Slots -> tool call of the current turn
    storedUserId,   \* localStorage user_id, or NoUserId
    invocations,    \* executions of a tool that had a user id (up to MaxCounted)
    tokenRequests,  \* requests sent to /api/user-token (up to MaxCounted)
    now,            \* clock of the server
    db,             \* persisted User rows
    reqs            \* inbound sync requests

agentVars == <<loopState, phase, stepCount, calls, storedUserId, invocations, tokenRequests>>

syncVars == <<now, db, reqs>>

vars == <<loopState, phase, stepCount, calls, storedUserId, invocations, tokenRequests,
          now, db, reqs>>


\* the library's answer to a tool call whose input the schema rejects
InvalidInput == [how |-> "invalid", value |-> JsonNull, message |-> <<"Invalid input for tool">>]

\* the planner emits no tool request: the turn is counted and the loop ends
PlannerStops ==
    /\ loopState = "Running"
    /\ phase = "plan"
    /\ stepCount' = stepCount + 1
    /\ calls' = [s \in Slots |-> IdleCall]
    /\ loopState' = "Terminated"
    /\ UNCHANGED <<phase, storedUserId, invocations, tokenRequests, now, db, reqs>>

\* the planner emits between 1 and maxK tool requests of R for this turn
PlannerRequests(maxK, R) ==
    /\ loopState = "Running"
    /\ phase = "plan"
    /\ \E k \in 1..maxK : \E f \in [1..k -> R] :
          calls' = [s \in Slots |->
                      IF s <= k THEN [IdleCall EXCEPT !.pc = "requested", !.req = f[s]]
                      ELSE IdleCall]
    /\ stepCount' = stepCount + 1
    /\ phase' = "tools"
    /\ UNCHANGED <<loopState, storedUserId, invocations, tokenRequests, now, db, reqs>>

\* the planner emits tool requests with any arguments
PlannerRequestsTools == PlannerRequests(MaxToolCalls, ToolRequests)

\* the planner emits several well-formed tool requests at once
PlannerRequestsConcurrently == PlannerRequests(MaxConcurrent, ConcurrentRequests)

\* a requested tool call is validated against its schema and, when valid,
\* execute runs up to its first await: getUserId() and the token fetch
Dispatch(s) ==
    /\ phase = "tools"
    /\ calls[s].pc = "requested"
    /\ LET c == calls[s]
           uid == getUserId(storedUserId)
       IN  IF ~InputSchemaAccepts(c.req)
           THEN /\ calls' = [calls EXCEPT ![s] =
                               [c EXCEPT !.pc = "done", !.out = InvalidInput]]
                /\ UNCHANGED <<invocations, tokenRequests>>
           ELSE IF uid.how = "throw"
           THEN /\ calls' = [calls EXCEPT ![s] =
                               [c EXCEPT !.pc = "done",
                                         !.out = executeCatch(c.req.tool, uid)]]
                /\ UNCHANGED <<invocations, tokenRequests>>
           ELSE /\ calls' = [calls EXCEPT ![s] =
                               [c EXCEPT !.pc = "awaitToken",
                                         !.net = Append(c.net, "/api/user-token")]]
                /\ invocations' = CountUp(invocations)
                /\ tokenRequests' = CountUp(tokenRequests)
    /\ UNCHANGED <<loopState, phase, stepCount, storedUserId, now, db, reqs>>

\* the fetch of /api/user-token settles; with a token execute goes on to
\* fetch the campus endpoint, otherwise the Error reaches execute's catch
TokenReply(s) ==
    /\ phase = "tools"
    /\ calls[s].pc = "awaitToken"
    /\ \E resp \in TokenResponses :
          LET c == calls[s]
              r == getUCLToken(resp)
          IN  IF retryToken(r, Sent(c, "/api/user-token"))
              THEN /\ calls' = [calls EXCEPT ![s] =
                                  [c EXCEPT !.net = Append(c.net, "/api/user-token")]]
                   /\ tokenRequests' = CountUp(tokenRequests)
              ELSE IF tokenObtained(r)
              THEN /\ calls' = [calls EXCEPT ![s] =
                                  [c EXCEPT !.pc = "awaitApi", !.tokenResp = resp,
                                            !.token = (r.how = "return"),
                                            !.net = Append(c.net, Endpoint(c.req.tool))]]
                   /\ UNCHANGED tokenRequests
              ELSE /\ calls' = [calls EXCEPT ![s] =
                                  [c EXCEPT !.pc = "done", !.tokenResp = resp,
                                            !.out = executeCatch(c.req.tool, r)]]
                   /\ UNCHANGED tokenRequests
    /\ UNCHANGED <<loopState, phase, stepCount, storedUserId, invocations, now, db, reqs>>

\* the fetch of the campus endpoint settles and execute finishes
ApiReply(s) ==
    /\ phase = "tools"
    /\ calls[s].pc = "awaitApi"
    /\ \E resp \in ApiResponses :
          calls' = [calls EXCEPT ![s] =
                      [calls[s] EXCEPT !.pc = "done", !.apiResp = resp,
                           !.out = executeCatch(calls[s].req.tool,
                                                executeTry(calls[s].req.tool, resp))]]
    /\ UNCHANGED <<loopState, phase, stepCount, storedUserId, invocations, tokenRequests,
                   now, db, reqs>>

\* every tool call of the turn has given its result: the loop stops when the
\* stop condition holds and asks the planner again otherwise
EndTurn ==
    /\ loopState = "Running"
    /\ phase = "tools"
    /\ allSettled(calls)
    /\ IF continueLoop(Cardinality({s \in Slots : calls[s].pc # "idle"}), stepCount)
       THEN /\ loopState' = loopState
            /\ phase' = "plan"
            /\ calls' = [s \in Slots |-> IdleCall]
       ELSE loopState' = "Terminated" /\ phase' = phase /\ calls' = calls
    /\ UNCHANGED <<stepCount, storedUserId, invocations, tokenRequests, now, db, reqs>>

(***************************************************************************)
(* Persisted users and the Moodle sync                                     *)
(***************************************************************************)
Users == {"u1", "u2"}

\* columns of pgTable('User')
UserColumns == {"id", "email", "password"}

\* keys of the object sync_moodle passes to set()
SyncSetKeys == {"last_moodle_sync"}

\* the columns an update statement assigns: the ORM builds the SET clause
\* from the table's columns that have a value in the object given to set()
UpdateSetColumns(keys) == keys \cap UserColumns

SqlSyntaxMsg == <<"syntax error in UPDATE">>

DbDownMsg == <<"connection refused">>

\* variant of the statement without its where clause and without the
\* table's column list: the keys are assigned in every row
DbUpdateEveryRow(d, userId, keys, value, dbUp) ==
    IF ~dbUp THEN [how |-> "throw", db |-> d, message |-> DbDownMsg]
    ELSE [how |-> "return", message |-> Undefined,
          db |-> [u \in DOMAIN d |->
                    [c \in DOMAIN d[u] |-> IF c \in keys THEN value ELSE d[u][c]]]]

\* database.update(user).set(keys := value).where(eq(user.id, userId))
\* on database d; dbUp: does the database answer
DbUpdate(d, userId, keys, value, dbUp) ==
    IF ~dbUp THEN [how |-> "throw", db |-> d, message |-> DbDownMsg]
    ELSE IF UpdateSetColumns(keys) = {}
    THEN [how |-> "throw", db |-> d, message |-> SqlSyntaxMsg]
    ELSE [how |-> "return", message |-> Undefined,
          db |-> [u \in DOMAIN d |->
                    IF u = userId
                    THEN [c \in DOMAIN d[u] |->
                            IF c \in UpdateSetColumns(keys) THEN value ELSE d[u][c]]
                    ELSE d[u]]]

\* value of the last_moodle_sync the header component reads: {} when absent
lastSyncedAt(u) == db[u].last_moodle_sync

\* request bodies the inbound endpoint can receive
RequestBody(kind, userId) == [kind |-> kind, userId |-> userId]

RequestBodies ==
    { RequestBody("unparseable", ArgUndefined),
      RequestBody("object", ArgUndefined), RequestBody("object", ArgString("")) }
    \cup { RequestBody("object", ArgString(u)) : u \in Users }

\* variant of the check that only catches an absent userId
userIdMissingOnly(v) ==
    v.type = "undefined"

\* !userId
userIdFalsy(v) ==
    v.type = "undefined" \/ (v.type = "string" /\ v.text = "")

\* replies the scrape trigger can give
ScrapeResponses ==
    { NetworkFailure,
      HttpOk(Unparseable),
      HttpOk(JsonNull),
      HttpOk(Obj(Undefined, Undefined, Undefined, Undefined)),
      HttpOk(Obj(Undefined, Undefined, <<"success">>, Undefined)),
      HttpOk(Obj(Undefined, Undefined, <<"error">>, <<"scrape_failed">>)) }

\* variant that takes any status for success
syncBranchAnyStatus(resp) ==
    IF resp.fail THEN "caught"
    ELSE IF ResponseJson(resp).how = "throw" THEN "caught"
    ELSE IF resp.body.kind = "null" THEN "caught"
    ELSE IF resp.body.status # Undefined THEN "update"
    ELSE "logFailed"

\* what sync_moodle does with the settled fetch of /scrape:
\* "update", "logFailed" (the else branch) or "caught" (the catch block)
syncBranch(resp) ==
    IF resp.fail THEN "caught"
    ELSE IF ResponseJson(resp).how = "throw" THEN "caught"
    ELSE IF resp.body.kind = "null" THEN "caught"
    ELSE IF resp.body.status = <<"success">> THEN "update"
    ELSE "logFailed"

\* variant of console.error that records nothing
consoleErrorDropped(logs, tag) ==
    logs

\* console.error(tag, ...)
consoleError(logs, tag) ==
    Append(logs, tag)

NoResponse == [status |-> 0, body |-> "none"]

\* json(body, {status})
JsonResponse(status, body) == [status |-> status, body |-> body]

Reqs == 1..MaxRequests

\* variant of the catch block of sync_moodle that lets the error escape
syncCatchRethrow(how) ==
    how

\* the catch block of sync_moodle: the error is logged, the call returns
syncCatch(how) ==
    "return"

\* how sync_moodle ends when its try block ended with `how`
syncEnds(how) ==
    IF how = "throw" THEN syncCatch(how) ELSE how

\* POST after `await sync_moodle(userId)`: { success: true }, or its own
\* catch block when sync_moodle threw
PostAnswers(q, out) ==
    IF out = "throw"
    THEN [q EXCEPT !.pc = "responded", !.syncOut = out,
              !.logs = consoleError(q.logs, "Error in sync-moodle endpoint:"),
              !.response = JsonResponse(500, "error: Failed to sync Moodle")]
    ELSE [q EXCEPT !.pc = "responded", !.syncOut = out,
              !.response = JsonResponse(200, "success: true")]

\* an inbound request to POST /api/sync-moodle
\*   pc        : idle, awaitScrape, awaitDb, responded, crashed
\*   invoked   : was sync_moodle called
\*   userId    : the id sync_moodle was called with
\*   issuedAt  : clock when sync_moodle was called
\*   scrapeSent: trigger requests sent
\*   scrape    : the settled fetch of /scrape
\*   stamp     : the new Date() taken for the update
\*   dbStmts   : update statements issued
\*   dbUp      : did the database answer the statement
\*   logs      : console.error calls
\*   syncOut   : how sync_moodle ended: none, return, throw
\*   after     : requests already answered when this one arrived
IdleReq == [pc |-> "idle", body |-> RequestBody("none", ArgUndefined), invoked |-> FALSE,
            userId |-> "", issuedAt |-> 0, scrapeSent |-> 0, scrape |-> NoReply,
            stamp |-> 0, dbStmts |-> 0, dbUp |-> TRUE, logs |-> <<>>, syncOut |-> "none",
            response |-> NoResponse, after |-> {}]

\* time passes
Tick ==
    /\ now < MaxTime
    /\ now' = now + 1
    /\ UNCHANGED <<loopState, phase, stepCount, calls, storedUserId, invocations,
                   tokenRequests, db, reqs>>

\* POST receives a request: request.json(), the userId check and the call of
\* sync_moodle up to its fetch of /scrape
Receive(r) ==
    /\ reqs[r].pc = "idle"
    /\ \A q \in Reqs : q < r => reqs[q].pc # "idle"
    /\ \E body \in RequestBodies :
          LET q0 == [reqs[r] EXCEPT !.body = body,
                        !.after = {q \in Reqs : reqs[q].pc = "responded"}]
          IN  IF body.kind \in {"unparseable", "null"}
              THEN reqs' = [reqs EXCEPT ![r] =
                              [q0 EXCEPT !.pc = "responded",
                                  !.logs = consoleError(q0.logs, "Error in sync-moodle endpoint:"),
                                  !.response = JsonResponse(500, "error: Failed to sync Moodle")]]
              ELSE IF userIdFalsy(body.userId)
              THEN reqs' = [reqs EXCEPT ![r] =
                              [q0 EXCEPT !.pc = "responded",
                                  !.response = JsonResponse(400, "error: userId is required")]]
              ELSE reqs' = [reqs EXCEPT ![r] =
                              [q0 EXCEPT !.pc = "awaitScrape", !.invoked = TRUE,
                                  !.userId = body.userId.text, !.issuedAt = now,
                                  !.scrapeSent = q0.scrapeSent + 1]]
    /\ UNCHANGED <<loopState, phase, stepCount, calls, storedUserId, invocations,
                   tokenRequests, now, db>>

\* the fetch of /scrape settles: on status success the update statement is
\* issued with new Date(); otherwise the failure is logged, sync_moodle
\* returns and POST answers
ScrapeReply(r) ==
    /\ reqs[r].pc = "awaitScrape"
    /\ \E resp \in ScrapeResponses :
          LET q0 == [reqs[r] EXCEPT !.scrape = resp]
          IN  IF syncBranch(resp) = "update"
              THEN reqs' = [reqs EXCEPT ![r] =
                              [q0 EXCEPT !.pc = "awaitDb", !.stamp = now,
                                         !.dbStmts = q0.dbStmts + 1]]
              ELSE IF syncBranch(resp) = "logFailed"
              THEN reqs' = [reqs EXCEPT ![r] =
                              PostAnswers([q0 EXCEPT !.logs =
                                              consoleError(q0.logs, "Flask scrape failed:")],
                                          syncEnds("return"))]
              ELSE reqs' = [reqs EXCEPT ![r] =
                              PostAnswers([q0 EXCEPT !.logs =
                                              consoleError(q0.logs, "Error calling Flask backend:")],
                                          syncEnds("throw"))]
    /\ UNCHANGED <<loopState, phase, stepCount, calls, storedUserId, invocations,
                   tokenRequests, now, db>>

\* the update statement settles, sync_moodle returns and POST answers
DbReply(r) ==
    /\ reqs[r].pc = "awaitDb"
    /\ \E dbUp \in BOOLEAN :
          LET q == reqs[r]
              res == DbUpdate(db, q.userId, SyncSetKeys, {q.stamp}, dbUp)
          IN  /\ db' = res.db
              /\ reqs' = [reqs EXCEPT ![r] =
                            PostAnswers([q EXCEPT !.dbUp = dbUp,
                                            !.logs = IF res.how = "throw"
                                                     THEN consoleError(q.logs, "Error calling Flask backend:")
                                                     ELSE q.logs],
                                        syncEnds(res.how))]
    /\ UNCHANGED <<loopState, phase, stepCount, calls, storedUserId, invocations,
                   tokenRequests, now>>

\* the server process dies while sync_moodle waits for /scrape or for the
\* database: the call never resumes and nothing more is written by it; a
\* statement already sent may still be executed by the database
Crash(r) ==
    /\ reqs[r].pc \in {"awaitScrape", "awaitDb"}
    /\ reqs' = [reqs EXCEPT ![r].pc = "crashed"]
    /\ IF reqs[r].pc = "awaitDb"
       THEN \E applied \in BOOLEAN :
               db' = IF applied
                     THEN DbUpdate(db, reqs[r].userId, SyncSetKeys, {reqs[r].stamp}, TRUE).db
                     ELSE db
       ELSE db' = db
    /\ UNCHANGED <<loopState, phase, stepCount, calls, storedUserId, invocations,
                   tokenRequests, now>>

(***************************************************************************)
(* Specifications                                                          *)
(***************************************************************************)
InitialDb ==
    [u \in Users |-> [email |-> u, password |-> "hash", last_moodle_sync |-> {}]]

AgentIdle ==
    /\ loopState = "Running"
    /\ phase = "plan"
    /\ stepCount = 0
    /\ calls = [s \in Slots |-> IdleCall]
    /\ invocations = 0
    /\ tokenRequests = 0

SyncIdle ==
    /\ now = 0
    /\ reqs = [r \in Reqs |-> IdleReq]

\* the agent is constructed and a run starts: Running(0)
Init ==
    /\ AgentIdle
    /\ storedUserId \in {NoUserId, "u1"}
    /\ SyncIdle
    /\ db = InitialDb

Next ==
    \/ PlannerStops
    \/ PlannerRequestsTools
    \/ \E s \in Slots : Dispatch(s)
    \/ \E s \in Slots : TokenReply(s)
    \/ \E s \in Slots : ApiReply(s)
    \/ EndTurn

Spec == Init /\ [][Next]_vars

\* the planner answers, every outbound call returns or fails, and the
\* runtime runs every continuation that is ready
FairSpec == Init /\ [][Next]_vars /\ WF_vars(Next)

\* the run in which the planner asks for several tools in one turn
ConcNext ==
    \/ PlannerStops
    \/ PlannerRequestsConcurrently
    \/ \E s \in Slots : Dispatch(s)
    \/ \E s \in Slots : TokenReply(s)
    \/ \E s \in Slots : ApiReply(s)
    \/ EndTurn

ConcSpec == Init /\ [][ConcNext]_vars

\* the server is up; each user's row may already carry a sync time
SyncInit ==
    /\ AgentIdle
    /\ storedUserId = NoUserId
    /\ SyncIdle
    /\ db \in [Users -> [email : {"mail"}, password : {"hash"}, last_moodle_sync : {{}, {0}}]]

SyncNext ==
    \/ Tick
    \/ \E r \in Reqs : Receive(r)
    \/ \E r \in Reqs : ScrapeReply(r)
    \/ \E r \in Reqs : DbReply(r)
    \/ \E r \in Reqs : Crash(r)

SyncSpec == SyncInit /\ [][SyncNext]_vars

\* the planner emits one well-formed tool request per turn
PlannerRequestsWellFormed == PlannerRequests(MaxToolCalls, ConcurrentRequests)

\* a signed-in user chats with the agent while the server handles sync
\* requests: the two run side by side on the same database; the clock
\* stands still, since the rows and columns a step writes do not depend on it
AppInit ==
    /\ AgentIdle
    /\ storedUserId = "u1"
    /\ SyncIdle
    /\ db = InitialDb

AppNext ==
    \/ PlannerStops
    \/ PlannerRequestsWellFormed
    \/ \E s \in Slots : Dispatch(s)
    \/ \E s \in Slots : TokenReply(s)
    \/ \E s \in Slots : ApiReply(s)
    \/ EndTurn
    \/ \E r \in Reqs : Receive(r)
    \/ \E r \in Reqs : ScrapeReply(r)
    \/ \E r \in Reqs : DbReply(r)
    \/ \E r \in Reqs : Crash(r)

AppSpec == AppInit /\ [][AppNext]_vars

TypeOK ==
    /\ loopState \in {"Running", "Terminated"}
    /\ phase \in {"plan", "tools"}
    /\ stepCount \in 0..(maxSteps + 1)
    /\ now \in 0..MaxTime

(***************************************************************************)
(* Vocabulary of the properties                                            *)
(***************************************************************************)
\* the string msg has the fragment frag
Contains(msg, frag) == \E i \in 1..Len(msg) : msg[i] = frag

\* the returned value is an Error ToolResult { error: message }
IsErrorResult(out) ==
    out.how = "return" /\ out.value.kind = "object" /\ out.value.error # Undefined

\* the token endpoint answered with a token
GaveToken(resp) ==
    ~resp.fail /\ resp.ok /\ resp.body.kind = "object" /\ resp.body.token # Undefined

\* the token endpoint answered, non-2xx or without a token
TokenUnavailable(resp) ==
    resp # NoReply /\ ~resp.fail /\ ~GaveToken(resp)

\* a step of the tool call failed
CallFailed(c) ==
    \/ storedUserId = NoUserId
    \/ c.tokenResp # NoReply /\ ~GaveToken(c.tokenResp)
    \/ c.apiResp # NoReply
         /\ (c.apiResp.fail \/ ~c.apiResp.ok \/ c.apiResp.body.kind = "unparseable")

\* the scrape trigger answered with status success
ScrapeSuccess(resp) ==
    ~resp.fail /\ resp.body.kind = "object" /\ resp.body.status = <<"success">>

\* the userId of the request body is missing or empty
UserIdMissingOrEmpty(body) ==
    body.kind = "object" /\ body.userId.type \in {"undefined", "string"} /\ body.userId.text = ""

(***************************************************************************)
(* Properties of the agent loop and the tools (Spec)                       *)
(***************************************************************************)
\* C1: the number of planner turns never exceeds 20, and the loop never asks
\* the planner again once the step counter has reached 20
C1_StepCeiling ==
    /\ stepCount \in 0..maxSteps
    /\ (loopState = "Running" /\ phase = "plan") => stepCount < maxSteps

\* the 20th turn requested a tool and the loop is Terminated
C1_Witness ==
    /\ stepCount = maxSteps
    /\ loopState = "Terminated"
    /\ \E s \in Slots : calls[s].pc = "done" /\ calls[s].net # <<>>

\* C2: every finished execution of getTimetable or getFreeRooms has returned
\* a value, never thrown, and after any failure of one of its steps the value
\* is an Error ToolResult
C2_ExecutorNeverThrows ==
    \A s \in Slots :
        (calls[s].pc = "done" /\ InputSchemaAccepts(calls[s].req)) =>
            /\ calls[s].out.how = "return"
            /\ CallFailed(calls[s]) => IsErrorResult(calls[s].out)

\* a non-2xx reply with an unparseable body ended as an Error ToolResult
C2_Witness ==
    \E s \in Slots :
        /\ calls[s].pc = "done"
        /\ calls[s].apiResp = HttpNotOk(<<"Bad Gateway">>, Unparseable)
        /\ IsErrorResult(calls[s].out)

\* C3 as stated: a getTimetable invocation with a valid date issues exactly
\* one credential request and exactly one timetable call
C3_ExactlyOneEach ==
    \A s \in Slots :
        (calls[s].pc = "done" /\ calls[s].req.tool = "getTimetable"
            /\ InputSchemaAccepts(calls[s].req)) =>
            /\ Sent(calls[s], "/api/user-token") = 1
            /\ Sent(calls[s], "/api/timetable") = 1

\* C3 amended: a getTimetable invocation with a valid date issues at most one
\* credential request and at most one timetable call, the timetable call only
\* after the credential request returned a token; once finished it has issued
\* one credential request iff a user id is stored and one timetable call iff
\* the token was obtained
C3_AtMostOneEachInOrder ==
    \A s \in Slots :
        (calls[s].req.tool = "getTimetable" /\ InputSchemaAccepts(calls[s].req)) =>
            /\ Sent(calls[s], "/api/user-token") <= 1
            /\ Sent(calls[s], "/api/timetable") <= 1
            /\ Sent(calls[s], "/api/free-rooms") = 0
            /\ Sent(calls[s], "/api/timetable") = 1 =>
                  /\ calls[s].net = <<"/api/user-token", "/api/timetable">>
                  /\ GaveToken(calls[s].tokenResp)
            /\ calls[s].pc = "done" =>
                  /\ Sent(calls[s], "/api/user-token") = 1 <=> storedUserId # NoUserId
                  /\ Sent(calls[s], "/api/timetable") = 1 <=> GaveToken(calls[s].tokenResp)

\* getTimetable with the date omitted finished after one credential request
\* followed by one timetable call
C3_Witness ==
    \E s \in Slots :
        /\ calls[s].pc = "done"
        /\ calls[s].req.tool = "getTimetable"
        /\ calls[s].req.date = ArgUndefined
        /\ calls[s].net = <<"/api/user-token", "/api/timetable">>

\* C4: a getFreeRooms request whose start_datetime or end_datetime is missing
\* or not an ISO-8601 date-time fails validation and contacts no endpoint
C4_MalformedNeverDispatched ==
    \A s \in Slots :
        (calls[s].req.tool = "getFreeRooms"
            /\ (~IsISO8601(calls[s].req.start_datetime)
                  \/ ~IsISO8601(calls[s].req.end_datetime))) =>
            /\ calls[s].net = <<>>
            /\ calls[s].pc = "done" => calls[s].out = InvalidInput

\* C5: when the token endpoint answers non-2xx or without a token during
\* getFreeRooms, the invocation returns an Error ToolResult whose message
\* tells that the token retrieval failed, and /api/free-rooms is not called
C5_TokenUnavailableFreeRooms ==
    \A s \in Slots :
        (calls[s].req.tool = "getFreeRooms" /\ TokenUnavailable(calls[s].tokenResp)) =>
            /\ calls[s].pc = "done"
            /\ IsErrorResult(calls[s].out)
            /\ Contains(calls[s].out.value.error, "Failed to retrieve UCL API token")
            /\ Sent(calls[s], "/api/free-rooms") = 0

\* getFreeRooms ended on a 2xx token reply that carried no token
C5_Witness ==
    \E s \in Slots :
        /\ calls[s].req.tool = "getFreeRooms"
        /\ calls[s].tokenResp = HttpOk(Obj(Undefined, Undefined, Undefined, Undefined))
        /\ calls[s].pc = "done"
        /\ IsErrorResult(calls[s].out)

(***************************************************************************)
(* Properties of the Moodle sync (SyncSpec)                                *)
(***************************************************************************)
\* C6: the step in which sync_moodle learns that the scrape trigger did not
\* yield status success (other status, network failure, unparseable reply)
\* leaves every persisted row as it was, ends the call and logs a failure
C6_NonSuccessLeavesLastSynced ==
    [][\A r \in Reqs :
          (reqs[r].pc = "awaitScrape" /\ reqs'[r].scrape # NoReply
              /\ ~ScrapeSuccess(reqs'[r].scrape)) =>
              /\ db' = db
              /\ reqs'[r].pc = "responded"
              /\ reqs'[r].dbStmts = 0
              /\ reqs'[r].logs # <<>>]_vars

\* the trigger answered status error for a user whose row carries a sync
\* time: the time is still there and the failure is logged
C6_Witness ==
    \E r \in Reqs :
        /\ reqs[r].pc = "responded"
        /\ reqs[r].invoked
        /\ reqs[r].scrape = HttpOk(Obj(Undefined, Undefined, <<"error">>, <<"scrape_failed">>))
        /\ reqs[r].logs # <<>>
        /\ lastSyncedAt(reqs[r].userId) = {0}

\* C7: after a syncMoodle(userId) call to which the trigger answered status
\* success (the database being up), lastSyncedAt of userId is present and
\* not earlier than the moment the call was issued
C7_SuccessSetsLastSynced ==
    \A r \in Reqs :
        (reqs[r].pc = "responded" /\ reqs[r].invoked /\ ScrapeSuccess(reqs[r].scrape)
            /\ reqs[r].dbUp) =>
            /\ lastSyncedAt(reqs[r].userId) # {}
            /\ \A t \in lastSyncedAt(reqs[r].userId) : t >= reqs[r].issuedAt

\* C8: two syncMoodle calls for the same user, the second issued after the
\* first has completed and both answered status success, end with
\* lastSyncedAt equal to the time of the second call, each having sent one
\* trigger request and at most one update, no other column changed
C8_TwiceKeepsSecondTime ==
    \A r1, r2 \in Reqs :
        (/\ r1 \in reqs[r2].after
         /\ reqs[r1].pc = "responded" /\ reqs[r2].pc = "responded"
         /\ reqs[r1].invoked /\ reqs[r2].invoked
         /\ reqs[r1].userId = reqs[r2].userId
         /\ ScrapeSuccess(reqs[r1].scrape) /\ ScrapeSuccess(reqs[r2].scrape)
         /\ reqs[r1].dbUp /\ reqs[r2].dbUp
         /\ \A q \in Reqs \ {r1, r2} : reqs[q].userId # reqs[r2].userId) =>
            /\ lastSyncedAt(reqs[r2].userId) = {reqs[r2].stamp}
            /\ reqs[r1].scrapeSent = 1 /\ reqs[r2].scrapeSent = 1
            /\ reqs[r1].dbStmts <= 1 /\ reqs[r2].dbStmts <= 1
            /\ \A u \in Users : db[u].email = "mail" /\ db[u].password = "hash"

C10_FailureAcknowledged ==
    \A r \in Reqs :
        (reqs[r].pc = "responded" /\ reqs[r].invoked /\ ~ScrapeSuccess(reqs[r].scrape)) =>
            /\ reqs[r].response.status # 200
            /\ reqs[r].response.body # "success: true"

(***************************************************************************)
(* Ordering, credentials and results of the tools (Spec, ConcSpec,         *)
(* FairSpec)                                                               *)
(***************************************************************************)
\* a tool call of the turn has given its ToolResult
Returned(c) == c.pc = "done" /\ c.out # NoResult

\* C11: the loop goes back to the planner only when every tool call of the
\* turn has returned its result, and the planner takes a turn only when no
\* tool call of an earlier turn is in flight
C11_TurnsSequential ==
    [][/\ (phase = "tools" /\ phase' = "plan") =>
             \A s \in Slots : calls[s].pc # "idle" => Returned(calls[s])
       /\ stepCount' # stepCount =>
             /\ phase = "plan"
             /\ \A s \in Slots : calls[s].pc = "idle"]_vars

\* in a later turn two tool calls run at once: one has returned, the other
\* still waits for its campus endpoint
C11_Witness ==
    /\ stepCount = 2
    /\ phase = "tools"
    /\ Returned(calls[1])
    /\ calls[2].pc = "awaitApi"

\* the endpoint's error string, else the HTTP status text
ReportedError(resp) ==
    IF resp.body.error # Undefined THEN resp.body.error ELSE resp.statusText

\* C13 as stated: on a non-2xx reply the message of the Error ToolResult is
\* the endpoint's error string itself, or the status text when there is none
C13_MessageVerbatim ==
    \A s \in Slots :
        (calls[s].pc = "done" /\ calls[s].apiResp # NoReply
            /\ ~calls[s].apiResp.fail /\ ~calls[s].apiResp.ok) =>
            /\ IsErrorResult(calls[s].out)
            /\ calls[s].out.value.error = ReportedError(calls[s].apiResp)

\* C13 amended: on a non-2xx reply whose body is a JSON object the message is
\* the tool's prefix followed by the endpoint's error string, or by the
\* status text when there is none; on any other non-2xx reply the result is
\* an Error with the tool's prefix; on a 2xx reply with a JSON body the
\* result is that body unchanged
C13_MessagePrefixed ==
    \A s \in Slots :
        (calls[s].pc = "done" /\ calls[s].apiResp # NoReply /\ ~calls[s].apiResp.fail) =>
            LET resp == calls[s].apiResp
                out == calls[s].out
            IN  /\ (~resp.ok /\ resp.body.kind = "object") =>
                      /\ IsErrorResult(out)
                      /\ out.value.error = Prefix(calls[s].req.tool) \o ReportedError(resp)
                /\ (~resp.ok /\ resp.body.kind # "object") =>
                      /\ IsErrorResult(out)
                      /\ SubSeq(out.value.error, 1, 1) = Prefix(calls[s].req.tool)
                /\ (resp.ok /\ resp.body.kind # "unparseable") =>
                      (out.how = "return" /\ out.value = resp.body)

\* a non-2xx reply with an error string gave the prefixed message
C13_Witness ==
    \E s \in Slots :
        /\ calls[s].pc = "done"
        /\ calls[s].apiResp =
              HttpNotOk(<<"Bad Request">>, Obj(<<"invalid token">>, Undefined, Undefined, Undefined))
        /\ calls[s].out.value.error = Prefix(calls[s].req.tool) \o <<"invalid token">>

\* C15: over the run as many requests have gone to the credential endpoint
\* as tool invocations had a user id, no invocation sends a second one, and
\* an invocation whose resolution failed has ended as an Error
C15_OneResolutionEach ==
    /\ tokenRequests = invocations
    /\ \A s \in Slots :
          /\ Sent(calls[s], "/api/user-token") <= 1
          /\ (calls[s].pc # "idle" /\ calls[s].pc # "requested"
                /\ InputSchemaAccepts(calls[s].req) /\ storedUserId # NoUserId) =>
                Sent(calls[s], "/api/user-token") = 1
          /\ (calls[s].tokenResp # NoReply /\ ~GaveToken(calls[s].tokenResp)) =>
                (calls[s].pc = "done" /\ IsErrorResult(calls[s].out))

\* the second invocation of the run has sent the second credential request,
\* after the first one's resolution had succeeded
C15_Witness ==
    /\ invocations = 2
    /\ tokenRequests = 2
    /\ stepCount = 2
    /\ \E s \in Slots : calls[s].pc = "awaitToken"

\* C16: without a user id an invocation ends as the not-authenticated Error
\* before any request is sent; the token-retrieval Error is a different one
\* and arises only after the credential endpoint was contacted and gave no
\* token
C16_NotAuthenticatedBeforeNetwork ==
    \A s \in Slots :
        /\ (calls[s].pc = "done" /\ InputSchemaAccepts(calls[s].req)
              /\ storedUserId = NoUserId) =>
              /\ calls[s].net = <<>>
              /\ IsErrorResult(calls[s].out)
              /\ Contains(calls[s].out.value.error, "User ID not found. Please login first.")
              /\ ~Contains(calls[s].out.value.error, "Failed to retrieve UCL API token")
        /\ (calls[s].pc = "done" /\ calls[s].out.how = "return"
              /\ calls[s].apiResp = NoReply
              /\ Contains(calls[s].out.value.error, "Failed to retrieve UCL API token")) =>
              /\ Sent(calls[s], "/api/user-token") = 1
              /\ calls[s].tokenResp # NoReply
              /\ ~GaveToken(calls[s].tokenResp)
              /\ ~Contains(calls[s].out.value.error, "User ID not found. Please login first.")

\* an invocation without a user id has ended with nothing sent
C16_Witness ==
    \E s \in Slots :
        /\ storedUserId = NoUserId
        /\ calls[s].pc = "done"
        /\ InputSchemaAccepts(calls[s].req)
        /\ calls[s].net = <<>>
        /\ IsErrorResult(calls[s].out)

\* C17: the value returned for a 2xx reply with a JSON body cannot be read
\* as an Error, and the value returned after a failure is an Error
C17_SuccessNeverReadsAsError ==
    \A s \in Slots :
        (calls[s].pc = "done" /\ InputSchemaAccepts(calls[s].req)) =>
            /\ (calls[s].apiResp # NoReply /\ ~calls[s].apiResp.fail /\ calls[s].apiResp.ok
                  /\ calls[s].apiResp.body.kind # "unparseable") =>
                  ~IsErrorResult(calls[s].out)
            /\ CallFailed(calls[s]) => IsErrorResult(calls[s].out)

\* C18: every run ends Terminated; it is Terminated only after a turn without
\* tool request or with the step counter at 20, and once Terminated no tool
\* call starts or moves
C18_Terminates ==
    /\ <>(loopState = "Terminated")
    /\ [](loopState = "Terminated" =>
            /\ stepCount <= maxSteps
            /\ (\A s \in Slots : calls[s].pc = "idle") \/ stepCount = maxSteps)
    /\ [][loopState = "Terminated" => (loopState' = "Terminated" /\ calls' = calls)]_vars

\* the planner stopped in its third turn, after two turns with a tool call
C18_Witness ==
    /\ loopState = "Terminated"
    /\ stepCount = 3
    /\ invocations = 2
    /\ \A s \in Slots : calls[s].pc = "idle"

(***************************************************************************)
(* Failure containment and ordering of sync_moodle (SyncSpec)              *)
(***************************************************************************)
\* C12: a call of sync_moodle that has ended has returned normally, whatever
\* failed; it sent one trigger request; and a failure of the trigger request,
\* of parsing its response, or of the update is logged once at this boundary
C12_SyncNeverThrows ==
    \A r \in Reqs :
        /\ reqs[r].scrapeSent <= 1
        /\ reqs[r].syncOut # "throw"
        /\ (reqs[r].pc = "responded" /\ reqs[r].invoked) =>
              /\ reqs[r].syncOut = "return"
              /\ reqs[r].scrapeSent = 1
              /\ (\/ reqs[r].scrape.fail
                  \/ reqs[r].scrape.body.kind = "unparseable"
                  \/ reqs[r].dbStmts = 1 /\ ~reqs[r].dbUp) =>
                    reqs[r].logs = <<"Error calling Flask backend:">>

\* the update failed because the database was down, and the call returned
C12_Witness ==
    \E r \in Reqs :
        /\ reqs[r].pc = "responded"
        /\ reqs[r].dbStmts = 1
        /\ ~reqs[r].dbUp
        /\ reqs[r].syncOut = "return"
        /\ reqs[r].logs # <<>>

\* C19: an update statement exists only for a call whose trigger request has
\* answered status success, and lastSyncedAt of a user changes only in a
\* step of such a call for that user, crashes included
C19_OnlyUnderReports ==
    /\ [](\A r \in Reqs :
            reqs[r].dbStmts > 0 =>
                (reqs[r].scrape # NoReply /\ ScrapeSuccess(reqs[r].scrape)))
    /\ [][\A u \in Users :
            lastSyncedAt(u)' # lastSyncedAt(u) =>
                \E r \in Reqs :
                    /\ reqs[r].userId = u
                    /\ reqs[r].pc = "awaitDb"
                    /\ ScrapeSuccess(reqs[r].scrape)
                    /\ reqs'[r].pc \in {"responded", "crashed"}]_vars

\* the process died after the trigger request had answered success and the
\* user's lastSyncedAt is still absent
C19_Witness ==
    \E r \in Reqs :
        /\ reqs[r].pc = "crashed"
        /\ ScrapeSuccess(reqs[r].scrape)
        /\ reqs[r].dbStmts = 1
        /\ lastSyncedAt(reqs[r].userId) = {}

\* the latest of the times taken by the calls in S
LatestStamp(S) ==
    CHOOSE t \in {reqs[r].stamp : r \in S} : \A q \in S : reqs[q].stamp <= t

\* C20: when two or more overlapping calls for one user have all answered
\* success and completed with the database up, lastSyncedAt of that user is
\* the latest of the times they took
C20_ConcurrentKeepsLatest ==
    \A u \in Users :
        LET S == {r \in Reqs : reqs[r].invoked /\ reqs[r].userId = u}
        IN  (/\ Cardinality(S) >= 2
             /\ \A r \in S : /\ reqs[r].pc = "responded"
                             /\ ScrapeSuccess(reqs[r].scrape)
                             /\ reqs[r].dbUp
             /\ \A r, q \in S : r \notin reqs[q].after) =>
                lastSyncedAt(u) = {LatestStamp(S)}

(***************************************************************************)
(* Frame of the sync and of the agent (AppSpec)                            *)
(***************************************************************************)
\* C21: a step changes a user's row only when it is the update of a
\* sync_moodle call for that user, and then only its last_moodle_sync; no
\* row is added or removed; a step of the agent loop or of a tool changes no
\* row at all
C21_SyncFrame ==
    [][/\ DOMAIN db' = DOMAIN db
       /\ \A v \in Users :
             db'[v] # db[v] =>
                /\ \E r \in Reqs :
                      /\ reqs[r].pc = "awaitDb"
                      /\ reqs[r].userId = v
                      /\ reqs'[r].pc \in {"responded", "crashed"}
                /\ \A c \in DOMAIN db[v] \ {"last_moodle_sync"} : db'[v][c] = db[v][c]
       /\ agentVars' # agentVars => db' = db]_vars

\* a sync_moodle call for u1 whose trigger answered success has sent its
\* update and ended while a tool of the agent had run to its result: the
\* other user's row and u1's other columns are as they were
C21_Witness ==
    /\ \E r \in Reqs :
          /\ reqs[r].pc = "responded"
          /\ reqs[r].userId = "u1"
          /\ ScrapeSuccess(reqs[r].scrape)
          /\ reqs[r].dbStmts = 1
          /\ reqs[r].dbUp
    /\ \E s \in Slots : Returned(calls[s])
    /\ db["u2"] = InitialDb["u2"]
    /\ db["u1"].email = InitialDb["u1"].email
    /\ db["u1"].password = InitialDb["u1"].password

====
